---- MODULE Spec2Model ----
(***************************************************************************)
(* Odoo-TopTex proxy (src/main.py): the token cache of                     *)
(* AuthenticationManager, the retry_with_backoff decorator, the data       *)
(* endpoint handlers it wraps, the Odoo webhook, GET /auth, GET /health    *)
(* and the startup event.                                                  *)
(*                                                                         *)
(* Callers 1..NumCallers use the module-global auth_manager.  The object   *)
(* has no lock, and the model takes its callers to overlap: the statements *)
(* of get_token() and authenticate() of different callers interleave       *)
(* statement by statement, each statement being one step.                  *)
(*                                                                         *)
(* Time is a clock of ticks of HoursPerTick hours.  A tick passes only     *)
(* while every caller is idle or blocked on the network: the local         *)
(* statements of a handler take no measurable time on that scale.  The     *)
(* backoff waits of retry_with_backoff are seconds; they are recorded in   *)
(* sleeps and do not move the clock.                                       *)
(*                                                                         *)
(* Spec is the startup event and the data endpoints against an upstream    *)
(* whose authentication endpoint keeps its contract (POST /authenticate    *)
(* answers 2xx with a token, or fails), with WEBHOOK_SECRET unset.         *)
(* SpecAny adds GET /auth and a 2xx answer without a token.  SpecGateway   *)
(* is every operation of the gateway, with WEBHOOK_SECRET set or unset.    *)
(* SpecWebhook is the webhook alone and SpecCredential is GET /auth alone, *)
(* both within one tick of the clock.  SpecWrapper is the decorator alone, *)
(* around plain functions.                                                 *)
(***************************************************************************)
EXTENDS Integers, Sequences, FiniteSets, TLC

\* ---------------------------------------------------------------- bounds
NumCallers == 2
MaxTime == 4
HoursPerTick == 12
MaxRetriesArg == 3
MaxBackoffArg == 2

\* ------------------------------------------------------ program constants
TokenValidityHours == 24
MaxRetries == 3
BackoffFactor == 1

Callers == 1..NumCallers

\* Python None and a present value.
None == << >>
Some(x) == << x >>

\* timedelta(hours=24) on the model's clock.
TokenTTL == TokenValidityHours \div HoursPerTick

\* The upstream targets a logical call can be made against: what the
\* upstream answers to the i-th request of the call.
Targets == {"ok", "always_503", "always_timeout", "fail_fail_ok", "client_404"}

TargetOutcome(t, i) ==
    CASE t = "ok" -> "2xx"
      [] t = "always_503" -> "5xx"
      [] t = "always_timeout" -> "transport"
      [] t = "fail_fail_ok" -> IF i < MaxRetries THEN "transport" ELSE "2xx"
      [] t = "client_404" -> "4xx"
      [] t = "token_401" -> "4xx"

\* os.getenv("WEBHOOK_SECRET"), line 19: unset, or a secret.
Secrets == {None, Some("s3cret")}

\* req.headers.get("x-odoo-signature"), line 131: absent, the secret, or
\* something else.
Signatures == {None, Some("s3cret"), Some("other")}

\* The bodies a webhook request can carry: not JSON, JSON that is not an
\* object, an object of an unknown type, or an order_created / order_updated
\* object with or without its order_number and customer_id.
Payloads ==
    {[kind |-> k, order_number |-> FALSE, customer_id |-> FALSE] :
        k \in {"not_json", "not_object", "other_type"}}
    \cup [kind : {"order_created", "order_updated"},
          order_number : BOOLEAN, customer_id : BOOLEAN]

\* The functions retry_with_backoff is put around when taken alone: plain
\* (not async) functions that return, raise RequestException on every call,
\* or raise an exception of another type.
PlainFunctions == {"plain_ok", "plain_request_error", "plain_other_error"}

VARIABLES
    now,            \* datetime.now(), in ticks
    token,          \* auth_manager.token
    token_expiry,   \* auth_manager.token_expiry
    token_call,     \* history: the caller whose authenticate() wrote token
    expiry_call,    \* history: the caller whose authenticate() wrote token_expiry
    lastCheck,      \* history: time of the latest get_token() entry
    rejected,       \* history: a 401 answer has come since token was last written
    started,        \* the startup event: pending, or how it ended
    WEBHOOK_SECRET, \* the configured webhook secret
    pc,             \* position of each caller
    op,             \* the operation a caller runs
    target,         \* the upstream target of a data call
    attempt,        \* loop variable of retry_with_backoff.wrapper
    tries,          \* upstream data requests issued by the logical call
    sleeps,         \* the time.sleep() waits of the logical call, in seconds
    data,           \* authenticate(): token field of the parsed response
    authCalls,      \* authentication requests issued by the current operation
    view,           \* history: what is_token_valid() read in get_token()
    ret,            \* history: what get_token() returned, and the Credential then
    outcome,        \* result of the operation as seen by its caller
    calls,          \* wrapper(): calls of func made so far
    max_retries,    \* retry_with_backoff(max_retries, ...)
    backoff_factor, \* retry_with_backoff(..., backoff_factor)
    signature,      \* from_odoo: the x-odoo-signature header of the request
    malformed       \* history: from_odoo got a payload that is malformed

cred == << token, token_expiry, token_call, expiry_call >>
config == << started, WEBHOOK_SECRET >>
shared == << now, cred, lastCheck, rejected, config >>
wrap == << attempt, sleeps, calls, max_retries, backoff_factor >>
hook == << signature, malformed >>
local == << pc, op, target, tries, data, authCalls, view, ret, outcome, wrap, hook >>
vars == << shared, local >>

NoView == [valid |-> FALSE, expired |-> FALSE, joined |-> FALSE]
NoRet == [value |-> None, expiry |-> None, fresh |-> FALSE]

\* The process after the module is loaded, before the startup event.
Loaded ==
    /\ now = 0
    /\ token = None
    /\ token_expiry = None
    /\ token_call = 0
    /\ expiry_call = 0
    /\ lastCheck = 0
    /\ rejected = FALSE
    /\ started = "pending"
    /\ pc = [p \in Callers |-> "idle"]
    /\ op = [p \in Callers |-> "none"]
    /\ target = [p \in Callers |-> "ok"]
    /\ attempt = [p \in Callers |-> 0]
    /\ tries = [p \in Callers |-> 0]
    /\ sleeps = [p \in Callers |-> << >>]
    /\ data = [p \in Callers |-> None]
    /\ authCalls = [p \in Callers |-> 0]
    /\ view = [p \in Callers |-> NoView]
    /\ ret = [p \in Callers |-> NoRet]
    /\ outcome = [p \in Callers |-> "none"]
    /\ calls = [p \in Callers |-> 0]
    /\ max_retries = [p \in Callers |-> MaxRetries]
    /\ backoff_factor = [p \in Callers |-> BackoffFactor]
    /\ signature = [p \in Callers |-> None]
    /\ malformed = [p \in Callers |-> FALSE]

\* WEBHOOK_SECRET is not set in the environment.
Init == Loaded /\ WEBHOOK_SECRET = None

\* WEBHOOK_SECRET is set or not.
InitGateway == Loaded /\ WEBHOOK_SECRET \in Secrets

\* The application at some later moment, nobody calling: the startup event
\* is over, and token, token_expiry and the time are any of the values the
\* operations leave.  The token, if there is one, is that of a request of
\* caller 1.
InitCredential ==
    /\ now \in 0..MaxTime
    /\ token \in {None, Some(1)}
    /\ token_expiry \in {None} \cup {Some(t) : t \in 0..MaxTime}
    /\ token_call = 0
    /\ expiry_call = 0
    /\ lastCheck = 0
    /\ rejected = FALSE
    /\ started = "authenticated"
    /\ WEBHOOK_SECRET = None
    /\ pc = [p \in Callers |-> "idle"]
    /\ op = [p \in Callers |-> "none"]
    /\ target = [p \in Callers |-> "ok"]
    /\ attempt = [p \in Callers |-> 0]
    /\ tries = [p \in Callers |-> 0]
    /\ sleeps = [p \in Callers |-> << >>]
    /\ data = [p \in Callers |-> None]
    /\ authCalls = [p \in Callers |-> 0]
    /\ view = [p \in Callers |-> NoView]
    /\ ret = [p \in Callers |-> NoRet]
    /\ outcome = [p \in Callers |-> "none"]
    /\ calls = [p \in Callers |-> 0]
    /\ max_retries = [p \in Callers |-> MaxRetries]
    /\ backoff_factor = [p \in Callers |-> BackoffFactor]
    /\ signature = [p \in Callers |-> None]
    /\ malformed = [p \in Callers |-> FALSE]

\* No caller is at a point where a result is handed over: the hand-over
\* steps GotToken and Finish come before any other step.
Quiet == \A q \in Callers : pc[q] \notin {"got_token", "done"}

\* ------------------------------------------------------ exception handlers

\* authenticate(), lines 55-57, with the exception handed on unchanged.
AuthExceptPassThrough(e) == e

\* authenticate(), lines 55-57:
\* except RequestException: raise HTTPException(status_code=503, ...)
AuthExcept(e) == IF e = "RequestException" THEN "auth_503" ELSE e

\* The data handlers, lines 153-155:
\* except requests.exceptions.RequestException as e:
\*     raise HTTPException(status_code=503, ...)
HandlerExcept(e) == IF e = "RequestException" THEN "upstream_503" ELSE e

\* from_odoo, lines 469-471: except Exception: raise HTTPException(400)
FromOdooExcept(e) == "webhook_400"

\* auth_status, lines 487-489: except Exception: raise HTTPException(503)
AuthStatusExcept(e) == "status_503"

\* health_check, lines 509-513: bare except, a "degraded" answer is returned
HealthExcept(e) == "degraded"

\* startup_event without its try: the exception leaves the startup.
StartupExceptRaises(e) == e

\* startup_event, lines 542-544: except Exception, a warning is logged
StartupExcept(e) == "unauthenticated"

\* What the caller of operation o receives when e is raised inside it.
Raise(o, e) ==
    CASE o = "data" -> HandlerExcept(e)
      [] o = "webhook" -> FromOdooExcept(HandlerExcept(e))
      [] o = "auth_status" -> AuthStatusExcept(e)
      [] o = "health" -> HealthExcept(e)
      [] o = "startup" -> StartupExcept(e)
      [] OTHER -> e

\* What the caller of operation o receives when the upstream call inside it
\* returns: response.json(), or from_odoo's {"status": "processed", ...}.
Return(o) == IF o = "webhook" THEN "processed" ELSE "ok"

\* The HTTP status of an outcome.
StatusOf(r) ==
    CASE r \in {"auth_503", "upstream_503", "status_503"} -> 503
      [] r = "webhook_400" -> 400
      [] r = "unauthorized_401" -> 401
      [] OTHER -> 200

\* ------------------------------------------------- AuthenticationManager

\* is_token_valid() with the comparison turned round.
IsTokenValidInverted ==
    /\ token # None
    /\ token_expiry # None
    /\ now > token_expiry[1]

\* is_token_valid() that takes the instant of expiry as still valid.
IsTokenValidInclusive ==
    /\ token # None
    /\ token_expiry # None
    /\ now <= token_expiry[1]

\* is_token_valid()
IsTokenValid ==
    /\ token # None
    /\ token_expiry # None
    /\ now < token_expiry[1]

\* The expiry without the validity window added.
NewExpiryNoWindow(t) == t

\* datetime.now() + timedelta(hours=24)
NewExpiry(t) == t + TokenTTL

\* return self.token, lines 54 and 63, with the Credential stored at that
\* moment.
Returned ==
    [value |-> token, expiry |-> token_expiry,
     fresh |-> (token_expiry # None /\ now < token_expiry[1])]

\* Where get_token() returns to, by operation.
AfterToken(p) ==
    CASE op[p] \in {"data", "webhook"} -> "request"
      [] op[p] = "health" -> "health_request"
      [] op[p] = "startup" -> "startup_log"
      [] OTHER -> "status_read"

\* A Credential is held and the time is strictly before its expiry.
CredentialValid == token # None /\ token_expiry # None /\ now < token_expiry[1]

\* A Credential is held and its expiry has passed.
CredentialExpired == token # None /\ token_expiry # None /\ now >= token_expiry[1]

\* Callers whose POST /authenticate is outstanding.
AuthOutstanding == {q \in Callers : pc[q] = "auth_wait"}

\* get_token(), line 61: if not self.is_token_valid()
GetTokenCheck(p) ==
    /\ pc[p] = "get_token"
    /\ Quiet
    /\ pc' = [pc EXCEPT ![p] = IF IsTokenValid THEN "return_cached" ELSE "auth_request"]
    /\ view' = [view EXCEPT ![p] =
                  [valid |-> CredentialValid, expired |-> CredentialExpired,
                   joined |-> (AuthOutstanding # {} /\ lastCheck < now)]]
    /\ lastCheck' = now
    /\ UNCHANGED << now, cred, rejected, config, op, target, tries, data,
                    authCalls, ret, outcome, wrap, hook >>

\* get_token(), line 63: return self.token
ReturnCached(p) ==
    /\ pc[p] = "return_cached"
    /\ Quiet
    /\ ret' = [ret EXCEPT ![p] = Returned]
    /\ pc' = [pc EXCEPT ![p] = "got_token"]
    /\ UNCHANGED << shared, op, target, tries, data, authCalls, view, outcome,
                    wrap, hook >>

\* authenticate(), lines 41-45: requests.post(.../authenticate)
AuthRequest(p) ==
    /\ pc[p] = "auth_request"
    /\ Quiet
    /\ authCalls' = [authCalls EXCEPT ![p] = @ + 1]
    /\ pc' = [pc EXCEPT ![p] = "auth_wait"]
    /\ UNCHANGED << shared, op, target, tries, data, view, ret, outcome,
                    wrap, hook >>

\* authenticate(), lines 46-47 and 55-57: the response arrives.  r is "ok"
\* (2xx whose JSON has the token field the upstream promises) or "fail" (a
\* RequestException: transport error, timeout, or raise_for_status() on a
\* non-2xx answer, turned into HTTPException(503), which leaves get_token()
\* and goes through the handlers of the operation).  The token of caller
\* p's request is written p.
AuthResponse(p) ==
    /\ pc[p] = "auth_wait"
    /\ Quiet
    /\ \E r \in {"ok", "fail"} :
         IF r = "fail"
         THEN /\ pc' = [pc EXCEPT ![p] = "done"]
              /\ outcome' = [outcome EXCEPT ![p] =
                               Raise(op[p], AuthExcept("RequestException"))]
              /\ data' = data
         ELSE /\ pc' = [pc EXCEPT ![p] = "auth_set_token"]
              /\ data' = [data EXCEPT ![p] = Some(p)]
              /\ outcome' = outcome
    /\ UNCHANGED << shared, op, target, tries, authCalls, view, ret, wrap, hook >>

\* authenticate(), line 47: a 2xx answer whose JSON object has no token
\* field; data.get("token") is None.
AuthResponseNoToken(p) ==
    /\ pc[p] = "auth_wait"
    /\ Quiet
    /\ pc' = [pc EXCEPT ![p] = "auth_set_token"]
    /\ data' = [data EXCEPT ![p] = None]
    /\ UNCHANGED << shared, op, target, tries, authCalls, view, ret, outcome,
                    wrap, hook >>

\* authenticate(), line 49: self.token = data.get("token")
AuthSetToken(p) ==
    /\ pc[p] = "auth_set_token"
    /\ Quiet
    /\ token' = data[p]
    /\ token_call' = p
    /\ rejected' = FALSE
    /\ pc' = [pc EXCEPT ![p] = "auth_set_expiry"]
    /\ UNCHANGED << now, token_expiry, expiry_call, lastCheck, config, op, target,
                    tries, data, authCalls, view, ret, outcome, wrap, hook >>

\* authenticate(), line 51: self.token_expiry = datetime.now() + timedelta(hours=24)
AuthSetExpiry(p) ==
    /\ pc[p] = "auth_set_expiry"
    /\ Quiet
    /\ token_expiry' = Some(NewExpiry(now))
    /\ expiry_call' = p
    /\ pc' = [pc EXCEPT ![p] = "auth_return"]
    /\ UNCHANGED << now, token, token_call, lastCheck, rejected, config, op, target,
                    tries, data, authCalls, view, ret, outcome, wrap, hook >>

\* authenticate(), line 54: return self.token
AuthReturn(p) ==
    /\ pc[p] = "auth_return"
    /\ Quiet
    /\ ret' = [ret EXCEPT ![p] = Returned]
    /\ pc' = [pc EXCEPT ![p] = "got_token"]
    /\ UNCHANGED << shared, op, target, tries, data, authCalls, view, outcome,
                    wrap, hook >>

\* get_token() has returned to get_toptex_headers(), line 122, to
\* auth_status, line 481, or to startup_event, line 540: its locals are
\* dropped.  Nothing else happens in between.
GotToken(p) ==
    /\ pc[p] = "got_token"
    /\ pc' = [pc EXCEPT ![p] = AfterToken(p)]
    /\ data' = [data EXCEPT ![p] = None]
    /\ view' = [view EXCEPT ![p] = NoView]
    /\ ret' = [ret EXCEPT ![p] = NoRet]
    /\ authCalls' = [authCalls EXCEPT ![p] = 0]
    /\ UNCHANGED << shared, op, target, tries, outcome, wrap, hook >>

\* ------------------------------------------------------ retry_with_backoff

\* func(*args, **kwargs), line 110.  Every wrapped handler is an `async def`:
\* the call builds a coroutine object and runs none of the handler's body,
\* so it returns without raising.  A plain function runs: it returns its
\* value or raises.
FuncCall(f) ==
    CASE f = "plain_ok" -> [raised |-> "none", value |-> "value"]
      [] f = "plain_request_error" -> [raised |-> "RequestException", value |-> "none"]
      [] f = "plain_other_error" -> [raised |-> "ValueError", value |-> "none"]
      [] OTHER -> [raised |-> "none", value |-> "coroutine"]

\* An except clause that takes every exception.
WrapperCatchesAll(e) == TRUE

\* except requests.exceptions.RequestException, line 111
WrapperCatches(e) == e = "RequestException"

\* backoff_factor * (2 ** attempt), line 114
WaitTime(b, a) == b * (2 ^ a)

\* One iteration of the loop of wrapper(), lines 108-116.  With
\* max_retries >= 1 the loop is always left by the return of line 110 or
\* the raise of line 113, never by the end of range(max_retries).
WrapperIter(p) ==
    /\ pc[p] = "wrapper"
    /\ Quiet
    /\ attempt[p] < max_retries[p]
    /\ calls' = [calls EXCEPT ![p] = @ + 1]
    /\ LET r == FuncCall(op[p]) IN
         IF r.raised = "none"
         THEN \* return func(...): for a handler, the awaiting caller
              \* receives the coroutine
              /\ pc' = [pc EXCEPT ![p] = IF r.value = "coroutine" THEN "await" ELSE "done"]
              /\ outcome' = [outcome EXCEPT ![p] =
                               IF r.value = "coroutine" THEN @ ELSE r.value]
              /\ UNCHANGED << attempt, sleeps >>
         ELSE IF WrapperCatches(r.raised) /\ attempt[p] # max_retries[p] - 1
         THEN \* time.sleep(wait_time), then the next attempt
              /\ sleeps' = [sleeps EXCEPT ![p] =
                              Append(@, WaitTime(backoff_factor[p], attempt[p]))]
              /\ attempt' = [attempt EXCEPT ![p] = @ + 1]
              /\ UNCHANGED << pc, outcome >>
         ELSE \* raise: the last attempt, or an exception the wrapper does not take
              /\ pc' = [pc EXCEPT ![p] = "done"]
              /\ outcome' = [outcome EXCEPT ![p] = r.raised]
              /\ UNCHANGED << attempt, sleeps >>
    /\ UNCHANGED << shared, op, target, tries, data, authCalls, view, ret,
                    max_retries, backoff_factor, hook >>

\* ------------------------------------------------- data endpoint handlers

\* `await create_order(order)`, lines 453 and 462: the coroutine runs; its
\* first statement is headers = get_toptex_headers(), lines 122 and 143.
Await(p) ==
    /\ pc[p] = "await"
    /\ Quiet
    /\ pc' = [pc EXCEPT ![p] = "get_token"]
    /\ UNCHANGED << shared, op, target, tries, data, authCalls, view, ret,
                    outcome, wrap, hook >>

\* requests.get/post/put/delete(..., timeout=30), lines 144-149
Request(p) ==
    /\ pc[p] = "request"
    /\ Quiet
    /\ tries' = [tries EXCEPT ![p] = @ + 1]
    /\ pc' = [pc EXCEPT ![p] = "response"]
    /\ UNCHANGED << shared, op, target, data, authCalls, view, ret, outcome,
                    wrap, hook >>

\* raise_for_status() that lets a 4xx answer through.
RaiseForStatusServerOnly(o) ==
    IF o \in {"5xx", "transport"} THEN "RequestException" ELSE "none"

\* What the request raises: the transport error of requests.get itself, or
\* the HTTPError of response.raise_for_status(), line 150, on 4xx and 5xx.
RaiseForStatus(o) ==
    IF o \in {"4xx", "5xx", "transport"} THEN "RequestException" ELSE "none"

\* A handler that goes back to its request when the request has failed.
AfterAnswerAgain(e) == IF e = "none" THEN "done" ELSE "request"

\* Where the handler's body goes once the answer is there: it ends, by the
\* return of line 152 or by the raise of line 155.
AfterAnswer(e) == "done"

\* The answer of the upstream, and the rest of the handler's body.  The
\* first answer of a logical call shows which target it is made against.
\* What the body raises leaves the coroutine at the caller's await.
Response(p) ==
    /\ pc[p] = "response"
    /\ Quiet
    /\ \E t \in Targets :
         /\ tries[p] > 1 => t = target[p]
         /\ target' = [target EXCEPT ![p] = t]
         /\ LET e == RaiseForStatus(TargetOutcome(t, tries[p])) IN
              /\ outcome' = [outcome EXCEPT ![p] =
                               IF e = "none" THEN Return(op[p]) ELSE Raise(op[p], e)]
              /\ pc' = [pc EXCEPT ![p] = AfterAnswer(e)]
    /\ UNCHANGED << shared, op, tries, data, authCalls, view, ret, wrap, hook >>

\* The upstream answers 401 to the request: it rejects the token the
\* request carried.  raise_for_status() raises as for any other 4xx.
Response401(p) ==
    /\ pc[p] = "response"
    /\ Quiet
    /\ tries[p] = 1
    /\ target' = [target EXCEPT ![p] = "token_401"]
    /\ LET e == RaiseForStatus(TargetOutcome("token_401", tries[p])) IN
         /\ outcome' = [outcome EXCEPT ![p] =
                          IF e = "none" THEN Return(op[p]) ELSE Raise(op[p], e)]
         /\ pc' = [pc EXCEPT ![p] = AfterAnswer(e)]
    /\ rejected' = TRUE
    /\ UNCHANGED << now, cred, lastCheck, config, op, tries, data, authCalls,
                    view, ret, wrap, hook >>

\* ------------------------------------------------------------ auth_status

\* lines 482-486: token_valid is is_token_valid(), token_expiry is read
StatusRead(p) ==
    /\ pc[p] = "status_read"
    /\ Quiet
    /\ outcome' = [outcome EXCEPT ![p] = "ok"]
    /\ pc' = [pc EXCEPT ![p] = "done"]
    /\ UNCHANGED << shared, op, target, tries, data, authCalls, view, ret,
                    wrap, hook >>

\* ----------------------------------------------------------- health_check

\* lines 500-513: requests.get(.../health); any answer gives "healthy", a
\* transport error is taken by the bare except.
HealthRequest(p) ==
    /\ pc[p] = "health_request"
    /\ Quiet
    /\ \E o \in {"2xx", "5xx", "transport"} :
         outcome' = [outcome EXCEPT ![p] =
                       IF o = "transport" THEN Raise(op[p], "RequestException")
                       ELSE "healthy"]
    /\ pc' = [pc EXCEPT ![p] = "done"]
    /\ UNCHANGED << shared, op, target, tries, data, authCalls, view, ret,
                    wrap, hook >>

\* -------------------------------------------------------------- from_odoo

\* verify_webhook_secret() that takes an absent header as no signature to
\* check.
SignatureRefusedIfPresent(s) ==
    WEBHOOK_SECRET # None /\ s # None /\ s # WEBHOOK_SECRET

\* verify_webhook_secret(), lines 130-131: the request is refused
SignatureRefused(s) == WEBHOOK_SECRET # None /\ s # WEBHOOK_SECRET

\* line 435: verify_webhook_secret(req), outside the try of from_odoo: its
\* HTTPException(401) goes to the caller as it is.
VerifyWebhookSecret(p) ==
    /\ pc[p] = "verify"
    /\ Quiet
    /\ IF SignatureRefused(signature[p])
       THEN /\ pc' = [pc EXCEPT ![p] = "done"]
            /\ outcome' = [outcome EXCEPT ![p] = "unauthorized_401"]
            /\ signature' = signature
       ELSE /\ pc' = [pc EXCEPT ![p] = "parse"]
            /\ outcome' = outcome
            /\ signature' = [signature EXCEPT ![p] = None]
    /\ UNCHANGED << shared, op, target, tries, data, authCalls, view, ret,
                    wrap, malformed >>

\* A payload the webhook cannot act on: not a JSON object, or an order
\* event without the fields of the order it is about.
Malformed(pl) ==
    \/ pl.kind \in {"not_json", "not_object"}
    \/ pl.kind = "order_created" /\ ~(pl.order_number /\ pl.customer_id)
    \/ pl.kind = "order_updated" /\ ~pl.order_number

\* from_odoo, lines 438-467, up to the call of the handler.  req.json()
\* raises on a body that is not JSON; payload.get raises on JSON that is not
\* an object; Order(...) raises when order_number or customer_id, required
\* str fields, are None; UpdateOrder(...) has no required field and
\* update_order is called with whatever payload.get("order_number") gave.
BeforeCall(pl) ==
    CASE pl.kind \in {"not_json", "not_object"} -> "raise"
      [] pl.kind = "order_created" ->
            IF pl.order_number /\ pl.customer_id THEN "call" ELSE "raise"
      [] pl.kind = "order_updated" -> "call"
      [] OTHER -> "unknown_type"

\* from_odoo, lines 437-467: the payload is read and dispatched.
ParsePayload(p) ==
    /\ pc[p] = "parse"
    /\ Quiet
    /\ \E pl \in Payloads :
         /\ malformed' = [malformed EXCEPT ![p] = Malformed(pl)]
         /\ LET b == BeforeCall(pl) IN
              /\ pc' = [pc EXCEPT ![p] = IF b = "call" THEN "wrapper" ELSE "done"]
              /\ outcome' = [outcome EXCEPT ![p] =
                               CASE b = "call" -> @
                                 [] b = "raise" -> Raise(op[p], "Exception")
                                 [] OTHER -> "unknown_type"]
    /\ UNCHANGED << shared, op, target, tries, data, authCalls, view, ret,
                    wrap, signature >>

\* ---------------------------------------------------------- startup_event

\* line 541: get_token() has returned, the success is logged
StartupLog(p) ==
    /\ pc[p] = "startup_log"
    /\ Quiet
    /\ outcome' = [outcome EXCEPT ![p] = "authenticated"]
    /\ pc' = [pc EXCEPT ![p] = "done"]
    /\ UNCHANGED << shared, op, target, tries, data, authCalls, view, ret,
                    wrap, hook >>

\* ------------------------------------------------------------ environment

\* The startup event runs once, before any request is served: line 540,
\* token = auth_manager.get_token()
StartStartup(p) ==
    /\ started = "pending"
    /\ \A q \in Callers : pc[q] = "idle"
    /\ op' = [op EXCEPT ![p] = "startup"]
    /\ pc' = [pc EXCEPT ![p] = "get_token"]
    /\ UNCHANGED << shared, target, tries, data, authCalls, view, ret, outcome,
                    wrap, hook >>

\* A logical outbound call starts: a handler wrapped by retry_with_backoff()
\* with its default arguments is called, as create_order and update_order
\* are at lines 453 and 462.
StartData(p) ==
    /\ pc[p] = "idle"
    /\ Quiet
    /\ started # "pending"
    /\ op' = [op EXCEPT ![p] = "data"]
    /\ pc' = [pc EXCEPT ![p] = "wrapper"]
    /\ UNCHANGED << shared, target, tries, data, authCalls, view, ret, outcome,
                    wrap, hook >>

\* GET /auth starts: token = auth_manager.get_token(), line 481
StartAuthStatus(p) ==
    /\ pc[p] = "idle"
    /\ Quiet
    /\ started # "pending"
    /\ op' = [op EXCEPT ![p] = "auth_status"]
    /\ pc' = [pc EXCEPT ![p] = "get_token"]
    /\ UNCHANGED << shared, target, tries, data, authCalls, view, ret, outcome,
                    wrap, hook >>

\* GET /health starts: headers = get_toptex_headers(), line 499
StartHealth(p) ==
    /\ pc[p] = "idle"
    /\ Quiet
    /\ started # "pending"
    /\ op' = [op EXCEPT ![p] = "health"]
    /\ pc' = [pc EXCEPT ![p] = "get_token"]
    /\ UNCHANGED << shared, target, tries, data, authCalls, view, ret, outcome,
                    wrap, hook >>

\* POST /odoo arrives, with or without an x-odoo-signature header.
StartWebhook(p) ==
    /\ pc[p] = "idle"
    /\ Quiet
    /\ started # "pending"
    /\ \E s \in Signatures : signature' = [signature EXCEPT ![p] = s]
    /\ op' = [op EXCEPT ![p] = "webhook"]
    /\ pc' = [pc EXCEPT ![p] = "verify"]
    /\ UNCHANGED << shared, target, tries, data, authCalls, view, ret, outcome,
                    wrap, malformed >>

\* retry_with_backoff(m, b) is put around a plain function f and the
\* wrapper is called.
StartWrapped(p) ==
    /\ pc[p] = "idle"
    /\ Quiet
    /\ \E f \in PlainFunctions, m \in 1..MaxRetriesArg, b \in 1..MaxBackoffArg :
         /\ op' = [op EXCEPT ![p] = f]
         /\ max_retries' = [max_retries EXCEPT ![p] = m]
         /\ backoff_factor' = [backoff_factor EXCEPT ![p] = b]
    /\ pc' = [pc EXCEPT ![p] = "wrapper"]
    /\ UNCHANGED << shared, target, tries, data, authCalls, view, ret, outcome,
                    attempt, sleeps, calls, hook >>

\* The result of a finished operation goes to its caller and the
\* operation's locals are dropped; the end of the startup event opens the
\* application to requests.  Nothing else happens in between.
Finish(p) ==
    /\ pc[p] = "done"
    /\ started' = IF op[p] = "startup" THEN outcome[p] ELSE started
    /\ pc' = [pc EXCEPT ![p] = "idle"]
    /\ op' = [op EXCEPT ![p] = "none"]
    /\ target' = [target EXCEPT ![p] = "ok"]
    /\ attempt' = [attempt EXCEPT ![p] = 0]
    /\ tries' = [tries EXCEPT ![p] = 0]
    /\ sleeps' = [sleeps EXCEPT ![p] = << >>]
    /\ data' = [data EXCEPT ![p] = None]
    /\ authCalls' = [authCalls EXCEPT ![p] = 0]
    /\ view' = [view EXCEPT ![p] = NoView]
    /\ ret' = [ret EXCEPT ![p] = NoRet]
    /\ outcome' = [outcome EXCEPT ![p] = "none"]
    /\ calls' = [calls EXCEPT ![p] = 0]
    /\ max_retries' = [max_retries EXCEPT ![p] = MaxRetries]
    /\ backoff_factor' = [backoff_factor EXCEPT ![p] = BackoffFactor]
    /\ signature' = [signature EXCEPT ![p] = None]
    /\ malformed' = [malformed EXCEPT ![p] = FALSE]
    /\ UNCHANGED << now, cred, lastCheck, rejected, WEBHOOK_SECRET >>

Blocked == {"idle", "auth_wait", "response"}

Tick ==
    /\ Quiet
    /\ now < MaxTime
    /\ \A p \in Callers : pc[p] \in Blocked
    /\ now' = now + 1
    /\ UNCHANGED << cred, lastCheck, rejected, config, local >>


\* The startup event and the data endpoints, against an authentication
\* endpoint that keeps its contract: a 2xx answer carries a token.
Next ==
    \/ Tick
    \/ \E p \in Callers :
         \/ StartStartup(p)
         \/ StartupLog(p)
         \/ StartData(p)
         \/ WrapperIter(p)
         \/ Await(p)
         \/ GetTokenCheck(p)
         \/ ReturnCached(p)
         \/ AuthRequest(p)
         \/ AuthResponse(p)
         \/ AuthSetToken(p)
         \/ AuthSetExpiry(p)
         \/ AuthReturn(p)
         \/ Request(p)
         \/ Response(p)
         \/ GotToken(p)
         \/ Finish(p)

\* With GET /auth, against an authentication endpoint that may also answer
\* 2xx without a token.
NextAny ==
    \/ Next
    \/ \E p \in Callers :
         \/ StartAuthStatus(p)
         \/ StatusRead(p)
         \/ AuthResponseNoToken(p)

\* Every operation of the gateway, against an upstream that may also
\* answer 401 to a data request.
NextGateway ==
    \/ Next
    \/ \E p \in Callers :
         \/ StartAuthStatus(p)
         \/ StatusRead(p)
         \/ StartHealth(p)
         \/ HealthRequest(p)
         \/ StartWebhook(p)
         \/ VerifyWebhookSecret(p)
         \/ ParsePayload(p)
         \/ Response401(p)

\* The startup event and the Odoo webhook with the calls it makes, within
\* one tick of the clock.
NextWebhook ==
    \E p \in Callers :
       \/ StartStartup(p)
       \/ StartupLog(p)
       \/ StartWebhook(p)
       \/ VerifyWebhookSecret(p)
       \/ ParsePayload(p)
       \/ WrapperIter(p)
       \/ Await(p)
       \/ GetTokenCheck(p)
       \/ ReturnCached(p)
       \/ AuthRequest(p)
       \/ AuthResponse(p)
       \/ AuthSetToken(p)
       \/ AuthSetExpiry(p)
       \/ AuthReturn(p)
       \/ Request(p)
       \/ Response(p)
       \/ GotToken(p)
       \/ Finish(p)

\* GET /auth alone, within one tick of the clock: get_token() and the reads
\* of auth_status, against an authentication endpoint that may also answer
\* 2xx without a token.
NextCredential ==
    \E p \in Callers :
       \/ StartAuthStatus(p)
       \/ GetTokenCheck(p)
       \/ ReturnCached(p)
       \/ AuthRequest(p)
       \/ AuthResponse(p)
       \/ AuthResponseNoToken(p)
       \/ AuthSetToken(p)
       \/ AuthSetExpiry(p)
       \/ AuthReturn(p)
       \/ GotToken(p)
       \/ StatusRead(p)
       \/ Finish(p)

\* The decorator alone.
NextWrapper ==
    \E p \in Callers :
       \/ StartWrapped(p)
       \/ WrapperIter(p)
       \/ Finish(p)

Spec == Init /\ [][Next]_vars

SpecAny == Init /\ [][NextAny]_vars

SpecGateway == InitGateway /\ [][NextGateway]_vars

SpecWebhook == InitGateway /\ [][NextWebhook]_vars

SpecCredential == InitCredential /\ [][NextCredential]_vars

SpecWrapper == Init /\ [][NextWrapper]_vars

\* ------------------------------------------------------------------ claims

\* The waits retry_with_backoff makes when every attempt fails:
\* backoff_factor * 2^(i-1) after attempt i, for i < max_retries.
FullBackoff == [i \in 1..(MaxRetries - 1) |-> BackoffFactor * (2 ^ (i - 1))]

\* Callers inside authenticate().
InAuthenticate ==
    {p \in Callers :
       pc[p] \in {"auth_request", "auth_wait", "auth_set_token", "auth_set_expiry",
                  "auth_return"}}

\* C1: a logical outbound call whose upstream request fails transiently on
\* every attempt makes exactly max_retries upstream attempts, waits 1s then
\* 2s between them, and ends with an error.
C1_TransientFailureUsesAllAttempts ==
    \A p \in Callers :
       (pc[p] = "done" /\ op[p] = "data" /\ tries[p] > 0
          /\ target[p] \in {"always_503", "always_timeout"})
       => /\ tries[p] = MaxRetries
          /\ sleeps[p] = FullBackoff
          /\ outcome[p] # "ok"

\* C2: a logical outbound call whose upstream request fails transiently on
\* the first max_retries - 1 attempts and succeeds on the last one returns
\* that success after max_retries attempts; no transient error reaches the
\* caller.
C2_LastAttemptSuccessIsReturned ==
    \A p \in Callers :
       (pc[p] = "done" /\ op[p] = "data" /\ tries[p] > 0
          /\ target[p] = "fail_fail_ok")
       => /\ outcome[p] = "ok"
          /\ tries[p] = MaxRetries
          /\ sleeps[p] = FullBackoff

\* C3: a get_token() call made while a valid Credential is held issues no
\* request to the authentication endpoint and returns the cached token.
C3_ValidCredentialNoAuthCall ==
    \A p \in Callers :
       view[p].valid
       => /\ authCalls[p] = 0
          /\ p \notin InAuthenticate
          /\ pc[p] = "got_token" => (ret[p].value = token /\ ret[p].value # None)

\* C3, witness: a get_token() call that found a valid Credential has returned it.
C3_Witness ==
    \E p \in Callers :
       pc[p] = "got_token" /\ view[p].valid /\ ret[p].value # None /\ authCalls[p] = 0

C5_AuthFailureIsRetried ==
    \A p \in Callers :
       (pc[p] = "done" /\ op[p] = "data" /\ outcome[p] = "auth_503")
       => /\ attempt[p] = MaxRetries - 1
          /\ sleeps[p] = FullBackoff

\* C6: a logical outbound call whose first upstream answer is a 4xx ends
\* with an error after exactly one upstream attempt and no backoff sleep.
C6_ClientErrorOneAttempt ==
    \A p \in Callers :
       (pc[p] = "done" /\ op[p] = "data" /\ tries[p] > 0 /\ target[p] = "client_404")
       => /\ outcome[p] \notin {"ok", "none"}
          /\ tries[p] = 1
          /\ sleeps[p] = << >>

\* C6, witness: a call answered 404 has ended with the handler's 503.
C6_Witness ==
    \E p \in Callers :
       /\ pc[p] = "done" /\ op[p] = "data" /\ target[p] = "client_404"
       /\ tries[p] = 1 /\ outcome[p] = "upstream_503"

\* C7: in every reachable state token and token_expiry are both absent or
\* both present.
C7_TokenAndExpiryTogether == (token = None) <=> (token_expiry = None)

C10_ReauthExpiryAfterStart ==
    \A p \in Callers :
       (pc[p] = "got_token" /\ view[p].expired /\ authCalls[p] = 1)
       => /\ ret[p].value # None
          /\ ret[p].expiry # None
          /\ ret[p].expiry[1] > lastCheck

\* C10, witness: the Credential has expired; caller p re-authenticates; a
\* later tick, with p's request outstanding, caller q starts and
\* re-authenticates too; both requests succeed, both callers have written,
\* and p returns.
C10_Witness ==
    \E p, q \in Callers :
       /\ p # q
       /\ pc[p] = "got_token" /\ view[p].expired /\ authCalls[p] = 1
       /\ ~view[p].joined
       /\ pc[q] = "auth_return" /\ view[q].expired /\ view[q].joined
       /\ ret[p].value # None
       /\ ret[p].expiry[1] > lastCheck

\* C11: an authenticate() that fails has made exactly one network call, an
\* authentication error of status 503 leaves it (it is what the caller of a
\* data call receives), and token and token_expiry stay as they were.
C11_AuthFailureLeavesCredential ==
    [][\A p \in Callers :
         (AuthResponse(p) /\ pc'[p] = "done")
         => /\ authCalls'[p] = 1
            /\ token' = token
            /\ token_expiry' = token_expiry
            /\ op[p] = "data" => outcome'[p] = "auth_503"]_vars

\* C11, witness: a Credential was held, it expired, and the
\* re-authentication of a data call has failed.
C11_Witness ==
    \E p \in Callers :
       /\ pc[p] = "done" /\ op[p] = "data" /\ outcome[p] = "auth_503"
       /\ authCalls[p] = 1 /\ token # None /\ token_expiry # None

\* C12: no logical outbound call makes more than max_retries upstream
\* attempts, whatever the upstream answers.
C12_AttemptsBounded ==
    \A p \in Callers : tries[p] <= MaxRetries /\ calls[p] <= max_retries[p]

\* C12, witness: a call against an upstream that always answers 503 has
\* ended.
C12_Witness ==
    \E p \in Callers :
       /\ pc[p] = "done" /\ op[p] = "data" /\ target[p] = "always_503"
       /\ tries[p] >= 1 /\ outcome[p] = "upstream_503"

\* C13: with WEBHOOK_SECRET configured, a POST /odoo whose signature header
\* is absent or differs from the secret is refused with 401 before any
\* authentication or upstream request, the Credential unchanged; otherwise
\* the request goes on to be processed.
C13_WebhookSignature ==
    [][\A p \in Callers :
         VerifyWebhookSecret(p)
         => IF WEBHOOK_SECRET # None /\ signature[p] # WEBHOOK_SECRET
            THEN /\ pc'[p] = "done"
                 /\ StatusOf(outcome'[p]) = 401
                 /\ tries'[p] = 0
                 /\ authCalls'[p] = 0
                 /\ token' = token
                 /\ token_expiry' = token_expiry
            ELSE pc'[p] = "parse"]_vars

\* C13, witness: a secret is configured and a request without the header
\* has been refused.
C13_Witness ==
    \E p \in Callers :
       /\ WEBHOOK_SECRET # None
       /\ pc[p] = "done" /\ op[p] = "webhook" /\ signature[p] = None
       /\ outcome[p] = "unauthorized_401"

\* C14: when get_token() fails inside a gateway operation (a data call, the
\* webhook, GET /auth, GET /health), the caller of the operation receives a
\* 503.
C14_AuthFailureSurfacesAs503 ==
    [][\A p \in Callers :
         (AuthResponse(p) /\ pc'[p] = "done"
            /\ op[p] \in {"data", "webhook", "auth_status", "health"})
         => StatusOf(outcome'[p]) = 503]_vars

\* C16: is_token_valid() answers true exactly when token and token_expiry
\* are present and the time is strictly before token_expiry, and it changes
\* neither field and issues no request.
C16_IsTokenValidExact ==
    [][\A p \in Callers :
         GetTokenCheck(p)
         => /\ (pc'[p] = "return_cached")
                 <=> (token # None /\ token_expiry # None /\ token_expiry[1] > now)
            /\ token' = token
            /\ token_expiry' = token_expiry
            /\ authCalls' = authCalls
            /\ tries' = tries]_vars

\* C16, witness: is_token_valid() was asked at the very instant of expiry
\* and answered false.
C16_Witness ==
    \E p \in Callers :
       /\ pc[p] = "auth_request" /\ view[p].expired
       /\ token # None /\ token_expiry # None /\ now = token_expiry[1]

\* C17: the wrapper alone, around a function that raises RequestException on
\* every call, calls it max_retries times, sleeps backoff_factor * 2^k after
\* the failed call of index k < max_retries - 1, and re-raises the last
\* exception; an exception of another type leaves after one call and no
\* sleep.
C17_WrapperAlone ==
    \A p \in Callers :
       pc[p] = "done"
       => /\ op[p] = "plain_request_error"
             => /\ calls[p] = max_retries[p]
                /\ sleeps[p] = [i \in 1..(max_retries[p] - 1) |->
                                  backoff_factor[p] * (2 ^ (i - 1))]
                /\ outcome[p] = "RequestException"
          /\ op[p] = "plain_other_error"
             => /\ calls[p] = 1
                /\ sleeps[p] = << >>
                /\ outcome[p] = "ValueError"

\* C17, witness: the largest max_retries and backoff_factor, every call
\* failed, the exception has left the wrapper.
C17_Witness ==
    \E p \in Callers :
       /\ pc[p] = "done" /\ op[p] = "plain_request_error"
       /\ max_retries[p] = MaxRetriesArg /\ backoff_factor[p] = MaxBackoffArg
       /\ Len(sleeps[p]) = MaxRetriesArg - 1
       /\ outcome[p] = "RequestException"

\* C18: once the upstream has answered 401 to a data request, the stored
\* token is not handed out again: the next get_token() authenticates anew.
C18_RejectedTokenNotReused ==
    [][\A p \in Callers :
         (GetTokenCheck(p) /\ rejected /\ op[p] \in {"data", "webhook"})
         => pc'[p] = "auth_request"]_vars

\* C19: a webhook whose payload is malformed is refused with an error
\* before any authentication or upstream request.
C19_MalformedPayloadRefused ==
    \A p \in Callers :
       malformed[p]
       => /\ tries[p] = 0
          /\ authCalls[p] = 0
          /\ pc[p] = "done" => StatusOf(outcome[p]) >= 400

\* C20: when the authentication of the startup event fails, the startup
\* ends all the same with the Credential empty; after it, a get_token()
\* that finds no token authenticates, and an authentication that succeeds
\* leaves a valid Credential.
C20_StartupFailureRecovers ==
    [][\A p \in Callers :
         /\ (AuthResponse(p) /\ op[p] = "startup" /\ pc'[p] = "done")
            => /\ outcome'[p] = "unauthenticated"
               /\ token' = None
               /\ token_expiry' = None
         /\ (Finish(p) /\ op[p] = "startup")
            => started' \in {"authenticated", "unauthenticated"}
         /\ (GetTokenCheck(p) /\ started = "unauthenticated" /\ token = None)
            => pc'[p] = "auth_request"
         /\ (AuthSetExpiry(p) /\ started = "unauthenticated")
            => /\ token' # None
               /\ token_expiry' # None
               /\ now' < token_expiry'[1]]_vars

\* C20, witness: the startup ended unauthenticated and the authentication
\* of a later data call has succeeded.
C20_Witness ==
    \E p \in Callers :
       /\ started = "unauthenticated"
       /\ pc[p] = "auth_return" /\ op[p] = "data"
       /\ token # None /\ token_expiry # None /\ now < token_expiry[1]

====
